---------------------------- MODULE Spec2Model ----------------------------
(***************************************************************************)
(* Model of the data validation engine (custom_validators.py):             *)
(*   - the audit result ledger (AuditResult rows, written by               *)
(*     AuditRuleset.audit_result through update_or_create),                *)
(*   - one run of a ruleset (AuditRuleset.clean) with its reconciliation   *)
(*     sweep (mark_existing_attributes_as_valid),                          *)
(*   - one validation pass of the per-model entry point                    *)
(*     (BaseValidator.clean),                                              *)
(*   - one inspection of a saved instance by the compliance view           *)
(*     (DataComplianceObjectAPIView._validate of api/views.py with         *)
(*     extract_attribute_errors of utils.py).                              *)
(* Exceptions are modelled as values: an operator that models a method     *)
(* returns the ledger it leaves behind together with the exception that    *)
(* leaves the method ("none" when it returns).                             *)
(***************************************************************************)
EXTENDS Integers, Sequences, FiniteSets, TLC

VARIABLES
    ledger,     \* the AuditResult table: a set of rows
    clock,      \* timezone.now(), as a logical clock that ticks once per instantiation
    run,        \* the last call of AuditRuleset.clean: its inputs, the ledger before it, its outcome
    rules,      \* the rule store: one sequence of rule records per rule family
    pass,       \* the last call of BaseValidator.clean: its inputs, what it attempted, its outcome
    report      \* the last call of DataComplianceObjectAPIView._validate: what each auditor raised, what it returned

vars == <<ledger, clock, run, rules, pass, report>>

---------------------------------------------------------------------------
(* Bounds *)

MaxRuns == 3        \* ruleset instantiations in one behaviour
MaxInspectRuns == 5 \* ruleset instantiations in one behaviour of inspections

---------------------------------------------------------------------------
(* Values of instance fields.  Python values are tagged so that None, "",  *)
(* 0 and False stay distinct.                                              *)

NoneVal == [t |-> "none"]
StrVal(s) == [t |-> "str", s |-> s]
IntVal(n) == [t |-> "int", n |-> n]
BoolVal(b) == [t |-> "bool", b |-> b]

\* Python truthiness of a value (the test of line 255).
Truthy(v) ==
    CASE v.t = "none" -> FALSE
      [] v.t = "str"  -> v.s # ""
      [] v.t = "int"  -> v.n # 0
      [] v.t = "bool" -> v.b

Digit(d) == CASE d = 0 -> "0" [] d = 1 -> "1" [] d = 2 -> "2" [] d = 3 -> "3" [] d = 4 -> "4"
              [] d = 5 -> "5" [] d = 6 -> "6" [] d = 7 -> "7" [] d = 8 -> "8" [] d = 9 -> "9"

RECURSIVE Decimal(_)
Decimal(n) == IF n < 10 THEN Digit(n) ELSE Decimal(n \div 10) \o Digit(n % 10)

\* Python str() of a value.
PyStr(v) ==
    CASE v.t = "none" -> "None"
      [] v.t = "str"  -> v.s
      [] v.t = "int"  -> IF v.n < 0 THEN "-" \o Decimal(0 - v.n) ELSE Decimal(v.n)
      [] v.t = "bool" -> IF v.b THEN "True" ELSE "False"

---------------------------------------------------------------------------
(* Instances and ruleset classes *)

ALL == "all"                  \* the sentinel attribute of the whole-object row
Fields == {"A", "B"}          \* the attributes of a device that audits report on

Device1 == [ct |-> "dcim.device", id |-> 1, name |-> "device1",
            fields |-> [f \in Fields |-> IF f = "A" THEN StrVal("a") ELSE IntVal(0)]]
Device2 == [ct |-> "dcim.device", id |-> 2, name |-> "device2",
            fields |-> [f \in Fields |-> IF f = "A" THEN NoneVal ELSE IntVal(17)]]

Devices == {Device1, Device2}

\* Ruleset classes: type name, class_name as declared ("" when left None),
\* the model they are bound to and the enforce flag.
NameAudit    == [name |-> "NameAudit", class_name |-> "", model |-> "dcim.device", enforce |-> FALSE]
StrictAudit  == [name |-> "StrictAudit", class_name |-> "", model |-> "dcim.device", enforce |-> TRUE]
RepoAudit    == [name |-> "RepoAudit", class_name |-> "Repo rules", model |-> "dcim.device", enforce |-> FALSE]

RulesetClasses == {NameAudit, StrictAudit, RepoAudit}

\* AuditRuleset.__init__: class_name defaults to the type name, result_date is now.
AuditRulesetInit(cls, obj, now) ==
    [class_name  |-> IF cls.class_name # "" THEN cls.class_name ELSE cls.name,
     enforce     |-> cls.enforce,
     object      |-> obj,
     result_date |-> now]

---------------------------------------------------------------------------
(* What audit() does: the caller-supplied procedure either returns, raises *)
(* an AuditError built from a dict (attribute -> messages) or from a list  *)
(* of messages, or raises some other exception.                            *)

\* One entry of a failure's message_dict.
Item(attribute, messages) == [attribute |-> attribute, messages |-> messages]

\* AuditError({...}): items in the dict's iteration order.  A failure names attributes
\* of the instance (audit_result reads each with getattr) and carries at least one
\* message for each.
KeyedFailures ==
    {[kind |-> "keyed", items |-> <<Item("A", <<"m1">>)>>],
     [kind |-> "keyed", items |-> <<Item("A", <<"m1", "m2">>)>>],
     [kind |-> "keyed", items |-> <<Item("B", <<"m1">>)>>],
     [kind |-> "keyed", items |-> <<Item("B", <<"m2">>), Item("A", <<"m1">>)>>]}
\* AuditError([...]) and AuditError("..."): no message_dict, only messages.
UnkeyedFailures == {[kind |-> "unkeyed", messages |-> <<"m1", "m2">>]}
AuditPasses == [kind |-> "pass"]        \* audit() returns
AuditCrashes == [kind |-> "crash"]      \* audit() raises something that is no AuditError

AuditFailures == KeyedFailures \cup UnkeyedFailures
AuditOutcomes == AuditFailures \cup {AuditPasses, AuditCrashes}

\* The attributes an audit failure names (the keys of its message_dict).
Named(outcome) ==
    IF outcome.kind = "keyed"
    THEN {outcome.items[i].attribute : i \in 1..Len(outcome.items)}
    ELSE {}

---------------------------------------------------------------------------
(* The ledger *)

KeyOf(r) == <<r.audit_class_name, r.content_type, r.object_id, r.validated_attribute>>

\* A lookup that also matches on the message: a row is created for every new message.
UpdateOrCreateByMessage(L, class_name, content_type, object_id, attribute, defaults) ==
    LET row == [audit_class_name |-> class_name,
                content_type |-> content_type,
                object_id |-> object_id,
                validated_attribute |-> attribute,
                last_validation_date |-> defaults.last_validation_date,
                validated_attribute_value |-> defaults.validated_attribute_value,
                message |-> defaults.message,
                valid |-> defaults.valid]
    IN  {r \in L : ~(KeyOf(r) = KeyOf(row) /\ r.message = row.message)} \cup {row}

\* A lookup without the object_id: the row of the same attribute of any instance is taken.
UpdateOrCreateForAnyObject(L, class_name, content_type, object_id, attribute, defaults) ==
    LET row == [audit_class_name |-> class_name,
                content_type |-> content_type,
                object_id |-> object_id,
                validated_attribute |-> attribute,
                last_validation_date |-> defaults.last_validation_date,
                validated_attribute_value |-> defaults.validated_attribute_value,
                message |-> defaults.message,
                valid |-> defaults.valid]
    IN  {r \in L : ~(/\ r.audit_class_name = class_name
                      /\ r.content_type = content_type
                      /\ r.validated_attribute = attribute)} \cup {row}

\* update_or_create: the row of the key gets the defaults; it is created when absent.
UpdateOrCreate(L, class_name, content_type, object_id, attribute, defaults) ==
    LET key == <<class_name, content_type, object_id, attribute>>
        row == [audit_class_name |-> class_name,
                content_type |-> content_type,
                object_id |-> object_id,
                validated_attribute |-> attribute,
                last_validation_date |-> defaults.last_validation_date,
                validated_attribute_value |-> defaults.validated_attribute_value,
                message |-> defaults.message,
                valid |-> defaults.valid]
    IN  {r \in L : KeyOf(r) # key} \cup {row}

\* AuditRuleset.audit_result; attribute "" stands for attribute=None.  getattr is the
\* lookup in the instance's fields, defined for the attributes of Fields only.
AuditResultWrite(L, self, message, attribute, valid) ==
    LET attribute_value == IF attribute # "" THEN self.object.fields[attribute] ELSE NoneVal
        attr == IF attribute # "" THEN attribute ELSE ALL
    IN  UpdateOrCreate(L, self.class_name, self.object.ct, self.object.id, attr,
            [last_validation_date |-> self.result_date,
             validated_attribute_value |->
                 IF Truthy(attribute_value) THEN StrVal(PyStr(attribute_value)) ELSE NoneVal,
             message |-> message,
             valid |-> valid])

\* The selection without the object_id filter.
ExistingAttributesOfAnyObject(L, self, exclude_attributes) ==
    {r.validated_attribute :
        r \in {q \in L : /\ q.audit_class_name = self.class_name
                         /\ q.content_type = self.object.ct
                         /\ q.validated_attribute \notin ({ALL} \cup exclude_attributes)}}

\* The selection of the rows that are not valid yet.
ExistingInvalidAttributes(L, self, exclude_attributes) ==
    {r.validated_attribute :
        r \in {q \in L : /\ q.audit_class_name = self.class_name
                         /\ q.content_type = self.object.ct
                         /\ q.object_id = self.object.id
                         /\ ~q.valid
                         /\ q.validated_attribute \notin ({ALL} \cup exclude_attributes)}}

\* The attributes the sweep of mark_existing_attributes_as_valid selects.
ExistingAttributes(L, self, exclude_attributes) ==
    {r.validated_attribute :
        r \in {q \in L : /\ q.audit_class_name = self.class_name
                         /\ q.content_type = self.object.ct
                         /\ q.object_id = self.object.id
                         /\ q.validated_attribute \notin ({ALL} \cup exclude_attributes)}}

RECURSIVE MarkEach(_, _, _)
MarkEach(L, self, attributes) ==
    IF attributes = {} THEN L
    ELSE LET attribute == CHOOSE a \in attributes : TRUE
         IN  MarkEach(AuditResultWrite(L, self, attribute \o " is valid.", attribute, TRUE),
                      self, attributes \ {attribute})

\* The sweep without its exclusion list.
MarkEveryExistingAttributeAsValid(L, self, exclude_attributes) ==
    MarkEach(L, self, ExistingAttributes(L, self, {}))

\* AuditRuleset.mark_existing_attributes_as_valid
MarkExistingAttributesAsValid(L, self, exclude_attributes) ==
    MarkEach(L, self, ExistingAttributes(L, self, exclude_attributes))

\* The inner loop left after its first message.
WriteFirstMessage(L, self, attribute, messages) ==
    IF messages = <<>> THEN L
    ELSE AuditResultWrite(L, self, Head(messages), attribute, FALSE)

RECURSIVE WriteMessages(_, _, _, _)
\* the inner loop of lines 224-225 (and 227-228 with attribute ""): one write per message
WriteMessages(L, self, attribute, messages) ==
    IF messages = <<>> THEN L
    ELSE WriteMessages(AuditResultWrite(L, self, Head(messages), attribute, FALSE),
                       self, attribute, Tail(messages))

RECURSIVE WriteItems(_, _, _)
\* the loop of lines 222-225 over message_dict.items()
WriteItems(L, self, items) ==
    IF items = <<>> THEN L
    ELSE WriteItems(WriteMessages(L, self, Head(items).attribute, Head(items).messages),
                    self, Tail(items))

\* The passing branch without the sweep.
CleanPassedAllRowOnly(L, self) ==
    AuditResultWrite(L, self, self.object.name \o " is valid", "", TRUE)

\* lines 216-218: audit() returned
CleanPassed(L, self) ==
    AuditResultWrite(MarkExistingAttributesAsValid(L, self, {}),
                     self, self.object.name \o " is valid", "", TRUE)

\* The failing branch that sweeps only after a failure with attributes.
CleanFailedSweepingWhenKeyed(L, self, outcome) ==
    LET exclude_attributes == Named(outcome)
        failed == IF outcome.kind = "keyed"
                  THEN WriteItems(L, self, outcome.items)
                  ELSE WriteMessages(L, self, "", outcome.messages)
        swept == IF outcome.kind = "keyed"
                 THEN MarkExistingAttributesAsValid(failed, self, exclude_attributes)
                 ELSE failed
    IN  AuditResultWrite(swept, self, self.object.name \o " is not valid", "", FALSE)

\* lines 219-231: audit() raised an AuditError; message_dict raises AttributeError
\* for an error that was not built from a dict, and the messages go to the "all" row
CleanFailed(L, self, outcome) ==
    LET exclude_attributes == Named(outcome)
        failed == IF outcome.kind = "keyed"
                  THEN WriteItems(L, self, outcome.items)
                  ELSE WriteMessages(L, self, "", outcome.messages)
        swept == MarkExistingAttributesAsValid(failed, self, exclude_attributes)
    IN  AuditResultWrite(swept, self, self.object.name \o " is not valid", "", FALSE)

\* clean() that raises the failure of an enforced ruleset before it writes anything.
CleanRaisingFirst(L, self, outcome) ==
    CASE outcome.kind = "pass" -> [ledger |-> CleanPassed(L, self), exc |-> "none"]
      [] outcome.kind = "crash" -> [ledger |-> L, exc |-> "Exception"]
      [] outcome.kind \in {"keyed", "unkeyed"} ->
            IF self.enforce THEN [ledger |-> L, exc |-> "AuditError"]
            ELSE [ledger |-> CleanFailed(L, self, outcome), exc |-> "none"]

\* clean() whose passing branch leaves out the sweep.
CleanWithoutSweepOnPass(L, self, outcome) ==
    CASE outcome.kind = "pass" ->
            [ledger |-> AuditResultWrite(L, self, self.object.name \o " is valid", "", TRUE),
             exc |-> "none"]
      [] outcome.kind = "crash" -> [ledger |-> L, exc |-> "Exception"]
      [] outcome.kind \in {"keyed", "unkeyed"} ->
            [ledger |-> CleanFailed(L, self, outcome),
             exc |-> IF self.enforce THEN "AuditError" ELSE "none"]

\* clean() that records every exception of audit(), not only AuditError, before it re-raises.
CleanCatchingAll(L, self, outcome) ==
    CASE outcome.kind = "pass" -> [ledger |-> CleanPassed(L, self), exc |-> "none"]
      [] outcome.kind = "crash" ->
            [ledger |-> AuditResultWrite(L, self, self.object.name \o " is not valid", "", FALSE),
             exc |-> "Exception"]
      [] outcome.kind \in {"keyed", "unkeyed"} ->
            [ledger |-> CleanFailed(L, self, outcome),
             exc |-> IF self.enforce THEN "AuditError" ELSE "none"]

\* clean() that raises the failure whether or not the ruleset is enforced.
CleanAlwaysRaising(L, self, outcome) ==
    CASE outcome.kind = "pass" -> [ledger |-> CleanPassed(L, self), exc |-> "none"]
      [] outcome.kind = "crash" -> [ledger |-> L, exc |-> "Exception"]
      [] outcome.kind \in {"keyed", "unkeyed"} ->
            [ledger |-> CleanFailed(L, self, outcome), exc |-> "AuditError"]

\* AuditRuleset.clean: the ledger it leaves and the exception that leaves it.  An
\* exception of audit() that is no AuditError is not caught (line 219).
Clean(L, self, outcome) ==
    CASE outcome.kind = "pass" -> [ledger |-> CleanPassed(L, self), exc |-> "none"]
      [] outcome.kind = "crash" -> [ledger |-> L, exc |-> "Exception"]
      [] outcome.kind \in {"keyed", "unkeyed"} ->
            [ledger |-> CleanFailed(L, self, outcome),
             exc |-> IF self.enforce THEN "AuditError" ELSE "none"]

---------------------------------------------------------------------------
(* The rule store and the instances a pass validates *)

Site1  == [ct |-> "dcim.site", id |-> 1, name |-> "site1",
           fields |-> [f \in Fields |-> IF f = "A" THEN StrVal("ab") ELSE IntVal(5)]]

\* The rows of the models' tables: what obj.__class__._default_manager sees.
Persisted == Devices \cup {Site1}

\* Field values of an instance under validation (a saved instance, possibly edited).
FieldEdits ==
    {[A |-> StrVal("a"),  B |-> IntVal(0)],
     [A |-> NoneVal,      B |-> IntVal(17)],
     [A |-> StrVal(""),   B |-> BoolVal(FALSE)],
     [A |-> StrVal(" "),  B |-> NoneVal],
     [A |-> StrVal(" "),  B |-> BoolVal(FALSE)],
     [A |-> StrVal("ab"), B |-> IntVal(5)],
     [A |-> StrVal("ab"), B |-> StrVal("x")]}

Candidates == {[o EXCEPT !.fields = e] : o \in Persisted, e \in FieldEdits}

RegexRule(ct, field, regex, ctx, msg) ==
    [name |-> "regex " \o field, content_type |-> ct, field |-> field,
     regular_expression |-> regex, context_processing |-> ctx, error_message |-> msg]
MinMaxRule(ct, field, min, max, msg) ==
    [name |-> "minmax " \o field, content_type |-> ct, field |-> field,
     min |-> min, max |-> max, error_message |-> msg]
RequiredRule(ct, field, msg) ==
    [name |-> "required " \o field, content_type |-> ct, field |-> field, error_message |-> msg]
UniqueRule(ct, field, max_instances, msg) ==
    [name |-> "unique " \o field, content_type |-> ct, field |-> field,
     max_instances |-> max_instances, error_message |-> msg]

Store(regex, minmax, required, unique) ==
    [regex |-> regex, minmax |-> minmax, required |-> required, unique |-> unique]
EmptyStore == Store(<<>>, <<>>, <<>>, <<>>)

\* What the four tables of the rule store may hold; error_message "" is no custom message.
RuleStores ==
    {EmptyStore,
     Store(<<RegexRule("dcim.device", "A", "a", FALSE, "")>>, <<>>,
           <<RequiredRule("dcim.device", "A", "")>>, <<>>),
     Store(<<RegexRule("dcim.device", "A", "a", FALSE, ""),
             RegexRule("dcim.device", "A", "ab", FALSE, "bad name")>>, <<>>, <<>>, <<>>),
     Store(<<RegexRule("dcim.device", "A", "{{", TRUE, ""),
             RegexRule("dcim.site", "A", "{{ object.B }}", TRUE, "")>>, <<>>, <<>>, <<>>),
     Store(<<>>, <<MinMaxRule("dcim.device", "B", IntVal(20), IntVal(10), "")>>, <<>>, <<>>),
     Store(<<>>, <<MinMaxRule("dcim.device", "B", IntVal(1), IntVal(10), ""),
                   MinMaxRule("dcim.device", "B", NoneVal, IntVal(16), "too big")>>,
           <<RequiredRule("dcim.device", "B", "B is required")>>, <<>>),
     Store(<<>>, <<>>, <<RequiredRule("dcim.device", "A", ""), RequiredRule("dcim.device", "B", ""),
                         RequiredRule("dcim.site", "A", "")>>, <<>>),
     Store(<<>>, <<>>, <<>>, <<UniqueRule("dcim.device", "B", 1, "")>>),
     Store(<<RegexRule("dcim.device", "A", "", FALSE, "")>>,
           <<MinMaxRule("dcim.device", "B", IntVal(0), NoneVal, "")>>,
           <<RequiredRule("dcim.device", "A", "")>>,
           <<UniqueRule("dcim.device", "A", 2, ""), UniqueRule("dcim.site", "B", 1, "one site")>>)}

\* <Rule>.objects.get_for_model(model)
GetForModel(table, model) == SelectSeq(table, LAMBDA rule : rule.content_type = model)

---------------------------------------------------------------------------
(* The validator registry and the git repositories *)

\* The PluginCustomValidator class generated for a model (CustomValidatorIterator).
BaseValidatorClass(model) == [name |-> model \o " validator", model |-> model, ruleset |-> FALSE]
AsValidator(cls) == [name |-> cls.name, model |-> cls.model, ruleset |-> TRUE, cls |-> cls]

\* registry["plugin_custom_validators"]: the validators registered per model.
PluginCustomValidators ==
    [m \in {"dcim.device", "dcim.site"} |->
        IF m = "dcim.device"
        THEN <<BaseValidatorClass(m), AsValidator(NameAudit), AsValidator(StrictAudit)>>
        ELSE <<BaseValidatorClass(m)>>]

IsAuditRuleSet(validator) == validator.ruleset

RegistryValidators ==
    UNION {{PluginCustomValidators[m][i] : i \in 1..Len(PluginCustomValidators[m])} :
              m \in DOMAIN PluginCustomValidators}

\* get_audit_rule_sets_map: a dict that has a key only for the models of some ruleset.
GetAuditRuleSetsMap ==
    [m \in {v.model : v \in {w \in RegistryValidators : IsAuditRuleSet(w)}} |->
        LET all == PluginCustomValidators[m]
            picked == SelectSeq(all, IsAuditRuleSet)
        IN  [i \in 1..Len(picked) |-> picked[i].cls]]

RepoSiteAudit == [name |-> "RepoSiteAudit", class_name |-> "", model |-> "dcim.site", enforce |-> FALSE]

\* The git repositories that provide audit rulesets, with the module each one loads.
GitRepositories ==
    <<[slug |-> "rules", has_custom_validators |-> TRUE, custom_validators |-> <<RepoSiteAudit, RepoAudit>>],
      [slug |-> "other", has_custom_validators |-> FALSE, custom_validators |-> <<>>]>>

AllRulesetClasses == RulesetClasses \cup {RepoSiteAudit}

---------------------------------------------------------------------------
(* BaseValidator.clean.  The state threaded through a pass: the steps      *)
(* attempted so far, the exception that has left the method ("none" while  *)
(* it runs), the error it carries, the ledger and the clock.               *)

Attempt(st, step) == [st EXCEPT !.attempted = Append(@, step)]
Raise(st, exc, error) == [st EXCEPT !.exc = exc, !.error = error]

NoError == [kind |-> "none"]

\* PluginCustomValidator.validation_error({field: message}) raises ValidationError.
ValidationError(st, field, message) ==
    Raise(st, "ValidationError", [kind |-> "keyed", items |-> <<Item(field, <<message>>)>>])

OrDefault(error_message, default) == IF error_message # "" THEN error_message ELSE default

\* render_jinja2 of the templates the rule tables use: markup-free text renders to itself.
RenderJinja2(template, obj) ==
    CASE template = "{{" -> [ok |-> FALSE, text |-> ""]
      [] template = "{{ object.B }}" -> [ok |-> TRUE, text |-> PyStr(obj.fields["B"])]
      [] OTHER -> [ok |-> TRUE, text |-> template]

\* validate_regex: the pattern compiles.
ValidateRegex(pattern) == pattern \notin {"(", "["}

\* re.match for the literal patterns of the rule tables: the value starts with the pattern.
ReMatch(pattern, value) == Len(pattern) <= Len(value) /\ SubSeq(value, 1, Len(pattern)) = pattern

IsNumeric(v) == v.t \in {"int", "bool"}
Num(v) == IF v.t = "bool" THEN (IF v.b THEN 1 ELSE 0) ELSE v.n

\* lines 50-79, the body of the loop
RegexStep(st, self, rule) ==
    LET raw == self.object.fields[rule.field]
        field_value == IF raw = NoneVal THEN StrVal("") ELSE raw
        rendered == RenderJinja2(rule.regular_expression, self.object)
        regular_expression ==
            IF rule.context_processing THEN rendered.text ELSE rule.regular_expression
    IN  IF rule.context_processing /\ ~(rendered.ok /\ ValidateRegex(rendered.text))
        THEN ValidationError(st, rule.field,
                 "There was an error rendering the regular expression in the data validation rule '"
                 \o rule.name
                 \o "'. Either fix the validation rule or disable it in order to save this data.")
        ELSE IF field_value.t # "str"
        THEN Raise(st, "TypeError", NoError)
        ELSE IF ~ReMatch(regular_expression, field_value.s)
        THEN ValidationError(st, rule.field,
                 OrDefault(rule.error_message, "Value does not conform to regex: " \o regular_expression))
        ELSE st

\* The min/max checks with the maximum tested before the minimum.
MinMaxStepMaxFirst(st, self, rule) ==
    LET field_value == self.object.fields[rule.field]
    IN  IF field_value = NoneVal
        THEN ValidationError(st, rule.field,
                 OrDefault(rule.error_message,
                     "Value does not conform to mix/max validation: min " \o PyStr(rule.min)
                     \o ", max " \o PyStr(rule.max)))
        ELSE IF ~IsNumeric(field_value)
        THEN ValidationError(st, rule.field,
                 "Unable to validate against min/max rule " \o rule.name
                 \o " because the field value is not numeric.")
        ELSE IF rule.max # NoneVal /\ Num(field_value) > Num(rule.max)
        THEN ValidationError(st, rule.field,
                 OrDefault(rule.error_message, "Value is more than maximum value: " \o PyStr(rule.max)))
        ELSE IF rule.min # NoneVal /\ Num(field_value) < Num(rule.min)
        THEN ValidationError(st, rule.field,
                 OrDefault(rule.error_message, "Value is less than minimum value: " \o PyStr(rule.min)))
        ELSE st

\* lines 82-108, the body of the loop
MinMaxStep(st, self, rule) ==
    LET field_value == self.object.fields[rule.field]
    IN  IF field_value = NoneVal
        THEN ValidationError(st, rule.field,
                 OrDefault(rule.error_message,
                     "Value does not conform to mix/max validation: min " \o PyStr(rule.min)
                     \o ", max " \o PyStr(rule.max)))
        ELSE IF ~IsNumeric(field_value)
        THEN ValidationError(st, rule.field,
                 "Unable to validate against min/max rule " \o rule.name
                 \o " because the field value is not numeric.")
        ELSE IF rule.min # NoneVal /\ Num(field_value) < Num(rule.min)
        THEN ValidationError(st, rule.field,
                 OrDefault(rule.error_message, "Value is less than minimum value: " \o PyStr(rule.min)))
        ELSE IF rule.max # NoneVal /\ Num(field_value) > Num(rule.max)
        THEN ValidationError(st, rule.field,
                 OrDefault(rule.error_message, "Value is more than maximum value: " \o PyStr(rule.max)))
        ELSE st

\* The required check as a test of truthiness ("if not field_value").
RequiredStepFalsy(st, self, rule) ==
    LET field_value == self.object.fields[rule.field]
    IN  IF ~Truthy(field_value)
        THEN ValidationError(st, rule.field, OrDefault(rule.error_message, "This field cannot be blank."))
        ELSE st

\* lines 111-114, the body of the loop
RequiredStep(st, self, rule) ==
    LET field_value == self.object.fields[rule.field]
    IN  IF field_value = NoneVal \/ field_value = StrVal("")
        THEN ValidationError(st, rule.field, OrDefault(rule.error_message, "This field cannot be blank."))
        ELSE st

\* Equality of a column with a value in a filter(): numbers by value, the rest as they are.
SameValue(a, b) == IF IsNumeric(a) /\ IsNumeric(b) THEN Num(a) = Num(b) ELSE a = b

\* obj.__class__._default_manager.filter(**{field: value}).count()
CountWithValue(obj, field, value) ==
    Cardinality({o \in Persisted : o.ct = obj.ct /\ SameValue(o.fields[field], value)})

Pluralize(n) == IF n = 1 THEN "" ELSE "s"

\* The unique check with the instance's own row left out of the count.
UniqueStepExcludingSelf(st, self, rule) ==
    LET field_value == self.object.fields[rule.field]
        others == {o \in Persisted : /\ o.ct = self.object.ct
                                     /\ o.id # self.object.id
                                     /\ SameValue(o.fields[rule.field], field_value)}
    IN  IF field_value # NoneVal /\ Cardinality(others) >= rule.max_instances
        THEN ValidationError(st, rule.field,
                 OrDefault(rule.error_message,
                     "There can only be " \o Decimal(rule.max_instances) \o " instance"
                     \o Pluralize(rule.max_instances) \o " with this value."))
        ELSE st

\* lines 117-128, the body of the loop
UniqueStep(st, self, rule) ==
    LET field_value == self.object.fields[rule.field]
    IN  IF field_value # NoneVal
           /\ CountWithValue(self.object, rule.field, field_value) >= rule.max_instances
        THEN ValidationError(st, rule.field,
                 OrDefault(rule.error_message,
                     "There can only be " \o Decimal(rule.max_instances) \o " instance"
                     \o Pluralize(rule.max_instances) \o " with this value."))
        ELSE st

RuleStep(family, st, self, rule) ==
    CASE family = "regex"    -> RegexStep(st, self, rule)
      [] family = "minmax"   -> MinMaxStep(st, self, rule)
      [] family = "required" -> RequiredStep(st, self, rule)
      [] family = "unique"   -> UniqueStep(st, self, rule)

\* The entries of the record of what a pass attempted.
RuleAttempt(family, i, rule) == [family |-> family, index |-> i, name |-> rule.name, field |-> rule.field]
RulesetAttempt(source, cls) == [family |-> source, index |-> 0, name |-> cls.name, field |-> ALL]

RECURSIVE RuleLoop(_, _, _, _, _)
\* one "for rule in <Rule>.objects.get_for_model(self.model)" loop, from its i-th rule on;
\* an exception raised by a rule leaves the method
RuleLoop(family, st, self, table, i) ==
    IF st.exc # "none" \/ i > Len(table) THEN st
    ELSE RuleLoop(family,
                  RuleStep(family, Attempt(st, RuleAttempt(family, i, table[i])), self, table[i]),
                  self, table, i + 1)

\* audit_class(obj).clean() of lines 132 and 145-146
RunRuleset(st, source, cls, obj, audits) ==
    LET ins == AuditRulesetInit(cls, obj, st.now + 1)
        res == CHOOSE r \in {Clean(st.ledger, ins, audits[cls.name])} : TRUE
        error == IF res.exc = "AuditError" THEN audits[cls.name] ELSE NoError
    IN  [attempted |-> Append(st.attempted, RulesetAttempt(source, cls)),
         exc |-> res.exc, error |-> error, ledger |-> res.ledger, now |-> st.now + 1]

RECURSIVE StaticLoop(_, _, _, _, _)
\* the loop of lines 131-132
StaticLoop(st, self, classes, i, audits) ==
    IF st.exc # "none" \/ i > Len(classes) THEN st
    ELSE StaticLoop(RunRuleset(st, "static", classes[i], self.object, audits),
                    self, classes, i + 1, audits)

RECURSIVE ModuleLoop(_, _, _, _, _)
\* the loop of lines 139-146 over module.custom_validators
ModuleLoop(st, self, classes, i, audits) ==
    IF st.exc # "none" \/ i > Len(classes) THEN st
    ELSE IF self.object.ct # classes[i].model
    THEN ModuleLoop(st, self, classes, i + 1, audits)
    ELSE ModuleLoop(RunRuleset(st, "repo", classes[i], self.object, audits),
                    self, classes, i + 1, audits)

RECURSIVE RepoLoop(_, _, _, _, _)
\* the loop of lines 134-146 over the git repositories
RepoLoop(st, self, repos, i, audits) ==
    IF st.exc # "none" \/ i > Len(repos) THEN st
    ELSE RepoLoop(IF repos[i].has_custom_validators
                  THEN ModuleLoop(st, self, repos[i].custom_validators, 1, audits)
                  ELSE st,
                  self, repos, i + 1, audits)

\* lines 131-132: indexing the map with self.model raises KeyError when the key is absent
StaticRulesets(st, self, audits) ==
    IF st.exc # "none" THEN st
    ELSE IF self.model \notin DOMAIN GetAuditRuleSetsMap
    THEN Raise(st, "KeyError", NoError)
    ELSE StaticLoop(st, self, GetAuditRuleSetsMap[self.model], 1, audits)

\* The pass with the required rules ahead of the regex rules.
BaseValidatorCleanRequiredFirst(st, self, store, audits) ==
    LET afterRequired == RuleLoop("required", st, self, GetForModel(store.required, self.model), 1)
        afterRegex    == RuleLoop("regex", afterRequired, self, GetForModel(store.regex, self.model), 1)
        afterMinMax   == RuleLoop("minmax", afterRegex, self, GetForModel(store.minmax, self.model), 1)
        afterUnique   == RuleLoop("unique", afterMinMax, self, GetForModel(store.unique, self.model), 1)
        afterStatic   == StaticRulesets(afterUnique, self, audits)
    IN  RepoLoop(afterStatic, self, GitRepositories, 1, audits)

\* The pass with the rulesets of the repositories ahead of the registered ones.
BaseValidatorCleanRepositoriesFirst(st, self, store, audits) ==
    LET afterRegex    == RuleLoop("regex", st, self, GetForModel(store.regex, self.model), 1)
        afterMinMax   == RuleLoop("minmax", afterRegex, self, GetForModel(store.minmax, self.model), 1)
        afterRequired == RuleLoop("required", afterMinMax, self, GetForModel(store.required, self.model), 1)
        afterUnique   == RuleLoop("unique", afterRequired, self, GetForModel(store.unique, self.model), 1)
        afterRepos    == RepoLoop(afterUnique, self, GitRepositories, 1, audits)
    IN  StaticRulesets(afterRepos, self, audits)

\* BaseValidator.clean
BaseValidatorClean(st, self, store, audits) ==
    LET afterRegex    == RuleLoop("regex", st, self, GetForModel(store.regex, self.model), 1)
        afterMinMax   == RuleLoop("minmax", afterRegex, self, GetForModel(store.minmax, self.model), 1)
        afterRequired == RuleLoop("required", afterMinMax, self, GetForModel(store.required, self.model), 1)
        afterUnique   == RuleLoop("unique", afterRequired, self, GetForModel(store.unique, self.model), 1)
        afterStatic   == StaticRulesets(afterUnique, self, audits)
    IN  RepoLoop(afterStatic, self, GitRepositories, 1, audits)

---------------------------------------------------------------------------
(* The inspection view (api/views.py) and extract_attribute_errors         *)
(* (utils.py).  A dict of errors is a function from its keys to its        *)
(* values; a value is a list of messages or, where the code stores one, a  *)
(* single string.                                                          *)

ListVal(items) == [t |-> "list", items |-> items]
EmptyDict == [k \in {} |-> NoneVal]

\* dict.update: the value of a key of the argument replaces the value the dict had.
DictUpdate(d, e) == [k \in DOMAIN d \cup DOMAIN e |-> IF k \in DOMAIN e THEN e[k] ELSE d[k]]

\* extract_attribute_errors: a list per attribute of message_dict; for an error without
\* message_dict each message is assigned to errors["all"] in turn.
ExtractAttributeErrors(validation_error) ==
    IF validation_error.kind = "keyed"
    THEN [attribute \in Named(validation_error) |->
             LET i == CHOOSE j \in 1..Len(validation_error.items) :
                          validation_error.items[j].attribute = attribute
             IN  ListVal(validation_error.items[i].messages)]
    ELSE IF validation_error.messages = <<>>
    THEN EmptyDict
    ELSE [attribute \in {ALL} |-> StrVal(validation_error.messages[Len(validation_error.messages)])]

\* _audit, for an auditor that returned (NoError) or raised a ValidationError.
Audit(compliance_errors, raised) ==
    IF raised = NoError THEN compliance_errors
    ELSE DictUpdate(compliance_errors, ExtractAttributeErrors(raised))

\* Model.full_clean collects what clean() raises into a dict: the messages of an error
\* without fields go under "__all__".
UpdateErrorDict(error) ==
    IF error.kind = "unkeyed"
    THEN [kind |-> "keyed", items |-> <<Item("__all__", error.messages)>>]
    ELSE error

\* What full_clean raises for what clean() raised: an AuditError is a ValidationError
\* and is collected; any other exception passes through.
Collected(res) ==
    IF res.exc \in {"ValidationError", "AuditError"}
    THEN [res EXCEPT !.exc = "ValidationError", !.error = UpdateErrorDict(res.error)]
    ELSE [res EXCEPT !.error = NoError]

\* instance.full_clean(): the clean() of the validator class generated for the model runs.
FullClean(st, obj, store, audits) ==
    Collected(BaseValidatorClean(st, [model |-> obj.ct, object |-> obj], store, audits))

\* self.rules of initialize_request: the ruleset classes of the model, [] for a model
\* without any.
InspectionRules(model) ==
    IF model \in DOMAIN GetAuditRuleSetsMap THEN GetAuditRuleSetsMap[model] ELSE <<>>

RECURSIVE AuditLoop(_, _, _, _, _)
\* the loop of _validate over self.rules: each class is instantiated and its audit()
\* called through _audit; an exception that is no ValidationError leaves _validate
AuditLoop(v, obj, rule_classes, i, audits) ==
    IF v.raised # "none" \/ i > Len(rule_classes) THEN v
    ELSE LET outcome == audits[rule_classes[i].name]
             ticked == [v EXCEPT !.now = @ + 1]
         IN  AuditLoop(
                 CASE outcome.kind = "pass" ->
                          [ticked EXCEPT !.sources = Append(@, NoError)]
                   [] outcome.kind = "crash" ->
                          [ticked EXCEPT !.raised = "Exception"]
                   [] outcome.kind \in {"keyed", "unkeyed"} ->
                          [ticked EXCEPT !.sources = Append(@, outcome),
                                         !.compliance_errors = Audit(@, outcome)],
                 obj, rule_classes, i + 1, audits)

\* lines 94-99 of _validate: the record it returns, with what else is kept of the call
Returned(obj, L, v) ==
    [ledger |-> L, now |-> v.now, sources |-> v.sources, raised |-> v.raised,
     record |-> [model |-> obj.ct, id |-> obj.id,
                 valid |-> DOMAIN v.compliance_errors = {},
                 errors |-> v.compliance_errors]]

\* lines 89-93 of _validate, once full_clean has ended: an exception of full_clean that
\* is no ValidationError leaves _validate
AuditAll(obj, fc, audits) ==
    IF fc.exc \in {"none", "ValidationError"}
    THEN Returned(obj, fc.ledger,
             AuditLoop([compliance_errors |-> Audit(EmptyDict, fc.error),
                        sources |-> <<fc.error>>, raised |-> "none", now |-> fc.now],
                       obj, InspectionRules(obj.ct), 1, audits))
    ELSE Returned(obj, fc.ledger,
             [compliance_errors |-> EmptyDict, sources |-> <<>>, raised |-> fc.exc, now |-> fc.now])

\* DataComplianceObjectAPIView._validate: the ledger and the clock it leaves, what each
\* auditor raised, the exception that leaves it and the record it returns.
ValidateInstance(L, now, obj, store, audits) ==
    AuditAll(obj,
             FullClean([attempted |-> <<>>, exc |-> "none", error |-> NoError,
                        ledger |-> L, now |-> now], obj, store, audits),
             audits)

---------------------------------------------------------------------------
(* Specification of the ledger under successive ruleset runs *)

NoRun == [kind |-> "none"]
NoPass == [kind |-> "none"]
NoReport == [kind |-> "none"]

Init ==
    /\ ledger = {}
    /\ clock = 0
    /\ run = NoRun
    /\ rules = EmptyStore
    /\ pass = NoPass
    /\ report = NoReport

\* What is kept of a run for the next one to be compared with.
Summary(r) == IF r.kind = "none" THEN r ELSE [kind |-> "run", cls |-> r.cls, self |-> r.self, outcome |-> r.outcome]

\* One instantiation of a registered ruleset class on an instance, followed by clean().
RunClean(cls, obj, outcome) ==
    /\ clock < MaxRuns
    /\ cls.model = obj.ct
    /\ LET self == AuditRulesetInit(cls, obj, clock + 1)
           res == Clean(ledger, self, outcome)
       IN  /\ ledger' = res.ledger
           /\ run' = [kind |-> "run", cls |-> cls, self |-> self, outcome |-> outcome,
                      before |-> ledger, exc |-> res.exc, prev |-> Summary(run)]
    /\ clock' = clock + 1
    /\ UNCHANGED <<rules, pass, report>>

StaticClasses == {v.cls : v \in {w \in RegistryValidators : IsAuditRuleSet(w)}}

Next ==
    \E cls \in StaticClasses, obj \in Devices, outcome \in AuditOutcomes :
        RunClean(cls, obj, outcome)

Spec == Init /\ [][Next]_vars

---------------------------------------------------------------------------
(* Specification of validation passes *)

InitPass ==
    /\ ledger = {}
    /\ clock = 0
    /\ run = NoRun
    /\ rules \in RuleStores
    /\ pass = NoPass
    /\ report = NoReport

\* What audit() of each ruleset bound to the instance's model does in a pass; one choice
\* is enough for a pass that a rule or the registry lookup ends before any ruleset runs.
AuditChoices(obj) ==
    LET self == [model |-> obj.ct, object |-> obj]
        names == {c.name : c \in {d \in AllRulesetClasses : d.model = obj.ct}}
        st0 == [attempted |-> <<>>, exc |-> "none", error |-> NoError, ledger |-> ledger, now |-> clock]
        quiet == [n \in names |-> AuditPasses]
    IN  IF BaseValidatorClean(st0, self, rules, quiet).now = clock
        THEN {quiet}
        ELSE [names -> AuditOutcomes]

\* The rulesets that a pass on the instance may instantiate fit under the bound.
WithinRuns(obj) == clock + Cardinality({c \in AllRulesetClasses : c.model = obj.ct}) <= MaxRuns

\* One call of the clean() of the validator class generated for the instance's model.
Validate(obj, audits) ==
    /\ WithinRuns(obj)
    /\ LET self == [model |-> obj.ct, object |-> obj]
           st0 == [attempted |-> <<>>, exc |-> "none", error |-> NoError,
                   ledger |-> ledger, now |-> clock]
       IN  \E res \in {BaseValidatorClean(st0, self, rules, audits)} :
             LET ran == {res.attempted[i].name : i \in {j \in 1..Len(res.attempted) :
                                                    res.attempted[j].family \in {"static", "repo"}}}
             IN  /\ ledger' = res.ledger
                 /\ clock' = res.now
                 /\ pass' = [kind |-> "pass", self |-> self, audits |-> [n \in ran |-> audits[n]],
                             attempted |-> res.attempted, exc |-> res.exc, error |-> res.error,
                             before |-> ledger]
    /\ UNCHANGED <<run, rules, report>>

NextPass ==
    \E obj \in {o \in Candidates : WithinRuns(o)} :
        \E audits \in AuditChoices(obj) : Validate(obj, audits)

SpecPass == InitPass /\ [][NextPass]_vars

---------------------------------------------------------------------------
(* Specification of inspections *)

\* One call of _validate on a saved instance (as list() makes for each item).
Inspect(obj, audits) ==
    /\ clock + Cardinality({c \in AllRulesetClasses : c.model = obj.ct})
             + Len(InspectionRules(obj.ct)) <= MaxInspectRuns
    /\ \E res \in {ValidateInstance(ledger, clock, obj, rules, audits)} :
          /\ ledger' = res.ledger
          /\ clock' = res.now
          /\ report' = [kind |-> "report", instance |-> obj, sources |-> res.sources,
                        raised |-> res.raised, record |-> res.record]
    /\ UNCHANGED <<run, rules, pass>>

NextInspect ==
    \E obj \in Persisted :
        \E audits \in [{c.name : c \in {d \in AllRulesetClasses : d.model = obj.ct}} -> AuditOutcomes] :
            Inspect(obj, audits)

SpecInspect == InitPass /\ [][NextInspect]_vars

---------------------------------------------------------------------------
(* Properties of the ledger under ruleset runs (checked under Spec) *)

\* The rows of the (ruleset, instance) of a ruleset instance.
RowsOf(L, self) ==
    {r \in L : /\ r.audit_class_name = self.class_name
               /\ r.content_type = self.object.ct
               /\ r.object_id = self.object.id}

AttrsOf(L, self) == {r.validated_attribute : r \in RowsOf(L, self)}
Keys(L) == {KeyOf(r) : r \in L}

\* The last run went through clean() to its end: audit() returned or raised an AuditError.
Completed == run.kind = "run" /\ run.outcome.kind # "crash"
Failed == run.kind = "run" /\ run.outcome.kind \in {"keyed", "unkeyed"}

C2_EnforcedSameLedger ==
    Failed =>
        LET other == [run.self EXCEPT !.enforce = ~run.self.enforce]
            rows == RowsOf(ledger, run.self)
        IN  /\ ledger = Clean(run.before, other, run.outcome).ledger
            /\ run.exc = (IF run.self.enforce THEN "AuditError" ELSE "none")
            /\ \A r \in rows : r.last_validation_date = run.self.result_date
            /\ \A r \in rows :
                  r.valid <=> r.validated_attribute \notin ({ALL} \cup Named(run.outcome))
            /\ {ALL} \cup Named(run.outcome) \subseteq AttrsOf(ledger, run.self)

\* C2 witness: an enforced run has raised a keyed failure after sweeping an older row.
C2_Witness ==
    /\ Failed /\ run.self.enforce /\ run.exc = "AuditError"
    /\ run.outcome.kind = "keyed"
    /\ \E r \in RowsOf(ledger, run.self) : r.valid
    /\ \E r \in RowsOf(ledger, run.self) : r.validated_attribute = ALL /\ ~r.valid

\* A row without its timestamp.
Undated(r) == [r EXCEPT !.last_validation_date = 0]

\* The last two runs were passing runs of the same ruleset class on the same instance.
PassedTwice ==
    /\ run.kind = "run" /\ run.outcome.kind = "pass"
    /\ run.prev.kind = "run" /\ run.prev.outcome.kind = "pass"
    /\ run.prev.cls = run.cls /\ run.prev.self.object = run.self.object

\* C6: after the second of two passing runs in a row the (ruleset, instance) has the
\* rows it had after the first, with the same flags, values and messages, all valid,
\* the "all" row among them.
C6_PassIdempotent ==
    PassedTwice =>
        /\ {Undated(r) : r \in RowsOf(ledger, run.self)} = {Undated(r) : r \in RowsOf(run.before, run.self)}
        /\ \A r \in RowsOf(ledger, run.self) \cup RowsOf(run.before, run.self) : r.valid
        /\ ALL \in AttrsOf(ledger, run.self)

\* C6 witness: two passing runs in a row over a ledger that had flagged an attribute before.
C6_Witness ==
    /\ PassedTwice
    /\ AttrsOf(ledger, run.self) # {ALL}

\* C8: no two rows share a key, and a completed run has replaced timestamp, message
\* and flag of the "all" row of its (ruleset, instance).
C8_KeyUnique ==
    /\ \A r1, r2 \in ledger : KeyOf(r1) = KeyOf(r2) => r1 = r2
    /\ Completed =>
          \A r \in RowsOf(ledger, run.self) :
              r.validated_attribute = ALL =>
                  /\ r.last_validation_date = run.self.result_date
                  /\ r.valid = (run.outcome.kind = "pass")
                  /\ r.message = run.self.object.name \o
                         (IF run.outcome.kind = "pass" THEN " is valid" ELSE " is not valid")

\* C8 witness: a run has rewritten rows that existed, next to rows of another key.
C8_Witness ==
    /\ Completed
    /\ Cardinality(AttrsOf(run.before, run.self)) >= 2
    /\ Cardinality(ledger) > Cardinality(RowsOf(ledger, run.self))
    /\ Cardinality(ledger) = Cardinality(run.before)

C10_CrashPropagates ==
    (run.kind = "run" /\ run.outcome.kind = "crash") =>
        /\ run.exc = "Exception"
        /\ ledger = run.before

\* C10 witness: both an enforced and a non-enforced ruleset have crashed over a ledger
\* that holds rows of theirs.
C10_Witness ==
    /\ run.kind = "run" /\ run.outcome.kind = "crash" /\ run.exc = "Exception"
    /\ run.prev.kind = "run" /\ run.prev.outcome.kind = "crash"
    /\ run.prev.self.enforce # run.self.enforce
    /\ RowsOf(ledger, run.self) # {}

\* Two rows of one (ruleset, instance).
SamePair(r, q) ==
    /\ r.audit_class_name = q.audit_class_name
    /\ r.content_type = q.content_type
    /\ r.object_id = q.object_id

\* C15: after a completed run the "all" row of the run's (ruleset, instance) exists and
\* is valid exactly when audit() raised no failure; and in every ledger, when the "all"
\* row of a (ruleset, instance) is valid, every row of that (ruleset, instance) is valid.
C15_AllRowConsistent ==
    /\ Completed =>
          /\ \E r \in RowsOf(ledger, run.self) : r.validated_attribute = ALL
          /\ \A r \in RowsOf(ledger, run.self) :
                r.validated_attribute = ALL => (r.valid <=> run.outcome.kind = "pass")
    /\ \A r \in ledger :
          (r.validated_attribute = ALL /\ r.valid) => \A q \in ledger : SamePair(r, q) => q.valid

\* C15 witness: a passing run over a (ruleset, instance) whose "all" row and an attribute
\* row were invalid; all its rows are valid now.
C15_Witness ==
    /\ Completed /\ run.outcome.kind = "pass"
    /\ \E r, q \in RowsOf(run.before, run.self) :
          /\ r.validated_attribute = ALL /\ ~r.valid
          /\ q.validated_attribute # ALL /\ ~q.valid
    /\ \A r \in RowsOf(ledger, run.self) : r.valid

\* The last run's audit() raised a failure without attributes.
Unkeyed == Failed /\ run.outcome.kind = "unkeyed"

\* C16: a run whose failure carries no attributes excludes nothing from the sweep: it
\* creates no attribute row, every attribute row the (ruleset, instance) had is valid
\* after it, with the sweep's message and the run's timestamp, and the "all" row is the
\* only invalid row.
C16_UnkeyedSweepsAll ==
    Unkeyed =>
        /\ Named(run.outcome) = {}
        /\ AttrsOf(ledger, run.self) = AttrsOf(run.before, run.self) \cup {ALL}
        /\ \A r \in RowsOf(ledger, run.self) :
              IF r.validated_attribute = ALL
              THEN ~r.valid /\ r.message = run.self.object.name \o " is not valid"
              ELSE /\ r.valid
                   /\ r.message = r.validated_attribute \o " is valid."
                   /\ r.last_validation_date = run.self.result_date

\* C16 witness: a failure without attributes over a (ruleset, instance) that had an
\* invalid attribute row; the row is valid now although the audit failed.
C16_Witness ==
    /\ Unkeyed
    /\ \E r \in RowsOf(run.before, run.self) : r.validated_attribute # ALL /\ ~r.valid
    /\ \E r \in RowsOf(ledger, run.self) : r.validated_attribute # ALL /\ r.valid

Outside(r, self) ==
    \/ r.audit_class_name # self.class_name
    \/ r.content_type # self.object.ct
    \/ r.object_id # self.object.id

\* C18: a run for class name R on instance I leaves every row whose class name is not R
\* or whose instance is not I as it was, and adds no such row.
C18_Frame ==
    run.kind = "run" =>
        {r \in ledger : Outside(r, run.self)} = {r \in run.before : Outside(r, run.self)}

\* C18 witness: a run has changed its rows while the ledger held attribute rows of the
\* same ruleset for another instance and of another ruleset for the same instance.
C18_Witness ==
    /\ Completed /\ RowsOf(ledger, run.self) # RowsOf(run.before, run.self)
    /\ \E r, q \in ledger :
          /\ r.validated_attribute # ALL /\ q.validated_attribute # ALL
          /\ r.audit_class_name = run.self.class_name /\ r.object_id # run.self.object.id
          /\ q.audit_class_name # run.self.class_name /\ q.object_id = run.self.object.id

\* C19: when the failure carries several messages for one attribute, the run leaves one
\* row for that attribute, invalid, with the last of the messages; no row of the
\* (ruleset, instance) keeps an earlier one.
C19_LastMessageKept ==
    (Failed /\ run.outcome.kind = "keyed") =>
        \A i \in 1..Len(run.outcome.items) :
            LET messages == run.outcome.items[i].messages
                rows == {r \in RowsOf(ledger, run.self) :
                            r.validated_attribute = run.outcome.items[i].attribute}
            IN  Len(messages) > 1 =>
                    /\ Cardinality(rows) = 1
                    /\ \A r \in rows : ~r.valid /\ r.message = messages[Len(messages)]
                    /\ \A r \in RowsOf(ledger, run.self), k \in 1..(Len(messages) - 1) :
                          r.message # messages[k]

\* C19 witness: a failure with two messages for an attribute whose row held the first
\* of them from an earlier run.
C19_Witness ==
    /\ Failed /\ run.outcome.kind = "keyed"
    /\ \E i \in 1..Len(run.outcome.items) :
          /\ Len(run.outcome.items[i].messages) > 1
          /\ \E r \in RowsOf(run.before, run.self) :
                /\ r.validated_attribute = run.outcome.items[i].attribute
                /\ r.message = run.outcome.items[i].messages[1]

---------------------------------------------------------------------------
(* Properties of a validation pass (checked under SpecPass) *)

Validated == pass.kind = "pass"

RuleAttempts(family, table) == [i \in 1..Len(table) |-> RuleAttempt(family, i, table[i])]

\* The ruleset classes of a model: the registered ones, then the ones of the repositories.
RECURSIVE Flatten(_)
Flatten(seqs) == IF seqs = <<>> THEN <<>> ELSE Head(seqs) \o Flatten(Tail(seqs))

StaticClassesOf(model) ==
    LET picked == SelectSeq(PluginCustomValidators[model], IsAuditRuleSet)
    IN  [i \in 1..Len(picked) |-> picked[i].cls]
RepoClassesOf(model) ==
    SelectSeq(Flatten([i \in 1..Len(GitRepositories) |-> GitRepositories[i].custom_validators]),
              LAMBDA c : c.model = model)

\* Every applicable rule and ruleset of a pass, in the order of the code.
Plan(self, store) ==
    RuleAttempts("regex", GetForModel(store.regex, self.model))
    \o RuleAttempts("minmax", GetForModel(store.minmax, self.model))
    \o RuleAttempts("required", GetForModel(store.required, self.model))
    \o RuleAttempts("unique", GetForModel(store.unique, self.model))
    \o [i \in 1..Len(StaticClassesOf(self.model)) |-> RulesetAttempt("static", StaticClassesOf(self.model)[i])]
    \o [i \in 1..Len(RepoClassesOf(self.model)) |-> RulesetAttempt("repo", RepoClassesOf(self.model)[i])]

IsPrefix(s, t) == Len(s) <= Len(t) /\ SubSeq(t, 1, Len(s)) = s
IsRulesetStep(step) == step.family \in {"static", "repo"}
ClassNamed(name) == CHOOSE c \in AllRulesetClasses : c.name = name

\* The i-th attempted step is a ruleset whose audit failed in this pass.
AuditFailedAt(i) ==
    /\ IsRulesetStep(pass.attempted[i])
    /\ pass.audits[pass.attempted[i].name].kind \in {"keyed", "unkeyed"}
AuditCrashedAt(i) ==
    /\ IsRulesetStep(pass.attempted[i])
    /\ pass.audits[pass.attempted[i].name].kind = "crash"
EnforcedAt(i) == ClassNamed(pass.attempted[i].name).enforce

Violation(family, rule) ==
    RuleStep(family, [exc |-> "none", error |-> NoError], pass.self, rule).error

MessagesFor(error, field) ==
    IF error.kind = "keyed"
    THEN Flatten([i \in 1..Len(error.items) |->
                     IF error.items[i].attribute = field THEN error.items[i].messages ELSE <<>>])
    ELSE <<>>

\* A regex rule and a required rule of the instance's model both fail on one field.
RegexAndRequiredFail(rx, rq) ==
    /\ rx.field = rq.field
    /\ Violation("regex", rx) # NoError
    /\ Violation("required", rq) # NoError

ModelRules(family) == GetForModel(rules[family], pass.self.model)
SeqRange(q) == {q[i] : i \in 1..Len(q)}

BelowMinAboveMax(rule) ==
    LET v == pass.self.object.fields[rule.field]
    IN  /\ rule.min # NoneVal /\ rule.max # NoneVal
        /\ IsNumeric(v)
        /\ Num(v) < Num(rule.min) /\ Num(v) > Num(rule.max)

\* The min/max rule that the pass evaluated last.
LastWasMinMax == Validated /\ pass.attempted # <<>> /\ pass.attempted[Len(pass.attempted)].family = "minmax"
LastMinMaxRule == ModelRules("minmax")[pass.attempted[Len(pass.attempted)].index]

C7_ReturnsOrValidationError ==
    (Validated /\ \A i \in 1..Len(pass.attempted) : ~AuditCrashedAt(i)) =>
        /\ pass.exc \in {"none", "ValidationError", "AuditError"}
        /\ (StaticClassesOf(pass.self.model) = <<>>
            /\ \A f \in {"regex", "minmax", "required", "unique"} :
                  \A rule \in SeqRange(ModelRules(f)) : Violation(f, rule) = NoError)
           => pass.exc = "none"

\* The place of a family of steps in BaseValidator.clean.
FamilyRank(family) ==
    CASE family = "regex" -> 1 [] family = "minmax" -> 2 [] family = "required" -> 3
      [] family = "unique" -> 4 [] family = "static" -> 5 [] family = "repo" -> 6

\* How many steps of a family apply to the model of the pass.
Applicable(family) ==
    CASE family = "static" -> Len(StaticClassesOf(pass.self.model))
      [] family = "repo" -> Len(RepoClassesOf(pass.self.model))
      [] OTHER -> Len(ModelRules(family))

AttemptedOf(family) == {i \in 1..Len(pass.attempted) : pass.attempted[i].family = family}

\* C11: within one pass the steps are attempted family by family, in the order regex,
\* min/max, required, unique, registered rulesets, repository rulesets: no step of a
\* family comes after a step of a later family, and when a step of a family is attempted
\* every applicable step of every earlier family has been attempted before it.
C11_FamilyOrder ==
    Validated =>
        /\ \A i, j \in 1..Len(pass.attempted) :
              i < j => FamilyRank(pass.attempted[i].family) <= FamilyRank(pass.attempted[j].family)
        /\ \A j \in 1..Len(pass.attempted) :
              \A f \in {"regex", "minmax", "required", "unique", "static", "repo"} :
                  FamilyRank(f) < FamilyRank(pass.attempted[j].family) =>
                      /\ Cardinality(AttemptedOf(f)) = Applicable(f)
                      /\ \A i \in AttemptedOf(f) : i < j

\* C11 witness: a pass that attempted steps of all six families.
C11_Witness ==
    /\ Validated
    /\ \A f \in {"regex", "minmax", "required", "unique", "static", "repo"} : AttemptedOf(f) # {}

---------------------------------------------------------------------------
(* Properties of an inspection (checked under SpecInspect) *)

\* The last inspection returned its record.
Reported == report.kind = "report" /\ report.raised = "none"

\* The messages that the auditors of the last inspection raised for an attribute, in
\* the order of the auditors; the messages of an error without attributes count for "all".
RaisedFor(attribute) ==
    Flatten([i \in 1..Len(report.sources) |->
                CASE report.sources[i].kind = "keyed" -> MessagesFor(report.sources[i], attribute)
                  [] report.sources[i].kind = "unkeyed" ->
                         IF attribute = ALL THEN report.sources[i].messages ELSE <<>>
                  [] OTHER -> <<>>])

ReportAttributes == Fields \cup {ALL, "__all__"}

\* C12: in the record an inspection returns, errors maps each attribute (or "all") to
\* the sequence of all the messages that the full clean and the ruleset audits raised
\* for it, in order, none replaced, and valid is false exactly when a message was raised.
C12_ReportAggregates ==
    Reported =>
        /\ DOMAIN report.record.errors = {a \in ReportAttributes : RaisedFor(a) # <<>>}
        /\ \A a \in DOMAIN report.record.errors : report.record.errors[a] = ListVal(RaisedFor(a))
        /\ report.record.valid = (\A a \in ReportAttributes : RaisedFor(a) = <<>>)

---------------------------------------------------------------------------
(* Properties of the rule evaluators (checked under SpecPass) *)

\* The i-th attempted step raised the validation error that ended the pass.
RaisedAt(i) == i = Len(pass.attempted) /\ pass.exc = "ValidationError"

\* The rule of the i-th attempted step and the value of its field on the instance.
RuleAt(i) == ModelRules(pass.attempted[i].family)[pass.attempted[i].index]
ValueAt(i) == pass.self.object.fields[pass.attempted[i].field]

\* The saved rows of the instance's model that hold a value in a field, the instance's
\* own row among them when it is saved with that value.
RowsWithValue(field, value) ==
    {o \in Persisted : o.ct = pass.self.model /\ SameValue(o.fields[field], value)}

\* C13: a unique rule with max_instances = N is violated exactly when the value is not
\* None and at least N saved rows of the model hold the value, the instance's own row
\* counted; re-validating an unchanged saved instance under max_instances = 1 is a
\* violation, and None never violates.
C13_UniqueCount ==
    Validated =>
        \A i \in AttemptedOf("unique") :
            /\ RaisedAt(i) <=>
                  /\ ValueAt(i) # NoneVal
                  /\ Cardinality(RowsWithValue(RuleAt(i).field, ValueAt(i))) >= RuleAt(i).max_instances
            /\ (pass.self.object \in Persisted /\ RuleAt(i).max_instances = 1 /\ ValueAt(i) # NoneVal)
                  => RaisedAt(i)
            /\ ValueAt(i) = NoneVal => ~RaisedAt(i)

\* C13 witness: an unchanged saved instance, alone with its value, violates a unique
\* rule with max_instances = 1.
C13_Witness ==
    /\ Validated /\ pass.self.object \in Persisted
    /\ \E i \in AttemptedOf("unique") :
          /\ RaisedAt(i)
          /\ RuleAt(i).max_instances = 1
          /\ RowsWithValue(RuleAt(i).field, ValueAt(i)) = {pass.self.object}

\* C14: a required rule raises a violation exactly when the value is None or ""; the
\* violation carries the rule's message or "This field cannot be blank."; 0, False and
\* whitespace raise none.
C14_RequiredBlank ==
    Validated =>
        \A i \in AttemptedOf("required") :
            /\ RaisedAt(i) <=> ValueAt(i) \in {NoneVal, StrVal("")}
            /\ RaisedAt(i) =>
                  pass.error = [kind |-> "keyed",
                                items |-> <<Item(RuleAt(i).field,
                                    <<IF RuleAt(i).error_message # "" THEN RuleAt(i).error_message
                                      ELSE "This field cannot be blank.">>)>>]
            /\ ValueAt(i) \in {IntVal(0), BoolVal(FALSE), StrVal(" ")} => ~RaisedAt(i)

\* C14 witness: required rules were evaluated on a whitespace value and on False, and
\* the pass went on.
C14_Witness ==
    /\ Validated
    /\ \E i, j \in AttemptedOf("required") :
          /\ ValueAt(i) = StrVal(" ") /\ ~RaisedAt(i)
          /\ ValueAt(j) = BoolVal(FALSE) /\ ~RaisedAt(j)

=============================================================================
